---- MODULE Spec2Model ----
(***************************************************************************)
(* Block import of the Madara node: VerifyApply (the exclusive lock and    *)
(* the worker pool), verify_apply_inner / verify_apply_pending_inner and   *)
(* the helpers check_parent_hash_and_num, update_tries,                    *)
(* calculate_state_root and block_hash of                                  *)
(* crates/client/block_import/src/verify_apply.rs.                         *)
(*                                                                         *)
(* Option<T> is a sequence: <<>> is None, <<x>> is Some(x).                *)
(* A block is immutable once created, so the model draws each of its       *)
(* fields at the step of the import that reads it.                         *)
(***************************************************************************)
EXTENDS Integers, Sequences, FiniteSets, TLC

\* ------------------------------------------------------------------ bounds
\* Calls of verify_apply / verify_apply_pending that may be in flight at once.
MaxCalls == 2
\* Block numbers are 0..MaxBlockN.
MaxBlockN == 1
\* Felts are 0..MaxFelt.
MaxFelt == 1
\* Keys of the contract trie and of the class trie are 1..MaxKey.
MaxKey == 1
\* The trie roots given to calculate_state_root on its own are 0..MaxRootArg.
MaxRootArg == 9
\* Calls made in one behaviour of Spec.
MaxImports == 3
\* Calls made in one behaviour of SpecObserved.
MaxObserved == 2
\* Calls made in one behaviour of SpecSingle.
MaxSingle == 1
\* Classes in one call of store_classes.
MaxClasses == 1
\* Versions of a class's content, 1..MaxVersion.
MaxVersion == 2
\* Writing calls on the class columns in one behaviour of SpecClasses.
MaxStores == 3
\* calls of the behaviours with two imports, also checked for progress
MaxPair == 2
\* writing calls on the class columns when their writes are taken one by one
MaxWrites == 2
\* u64::MAX of the L1 block numbers: they are kept modulo MaxU64 + 1
MaxU64 == 65535
\* logs on the L1 chain
MaxLogs == 2

Calls == 1..MaxCalls
BlockNs == 0..MaxBlockN
Felt == 0..MaxFelt
Keys == 1..MaxKey

None == <<>>
Some(x) == <<x>>
Option(S) == {None} \cup {Some(x) : x \in S}

\* Felt::ZERO
FeltZERO == 0

VARIABLES
    mutex,          \* VerifyApply.mutex: None, or Some(c) for the call holding the guard
    caller,         \* caller[c]: where the future of call c stands
    task,           \* task[c]: the closure call c spawned on the pool
    blocks,         \* backend: block number -> Option of the stored finalized block
    latest,         \* backend: Option of the number of the latest finalized block
    pending,        \* backend: Option of the stored pending block
    contractTrie,   \* backend: the keys of the contract trie
    classTrie,      \* backend: the keys of the class trie
    orderIgnored,   \* history: a finalized import with ignore_block_order stored a block
    budget,         \* calls the behaviour may still make
    rootIn,         \* calculate_state_root's arguments, <<contracts root, classes root>>
    rootOut,        \* Option of calculate_state_root's result for rootIn
    hashIn,         \* block_hash's arguments
    hashOut,        \* Option of block_hash's result for hashIn
    classInfo,      \* Column::ClassInfo: class hash -> Option of ClassInfoWithBlockNumber
    classCompiled,  \* Column::ClassCompiled: compiled class hash -> Option of CompiledSierra
    pendingClassInfo,       \* Column::PendingClassInfo
    pendingClassCompiled,   \* Column::PendingClassCompiled
    classOp,        \* the last call made on the class columns, and what a read returned
    classWriter,    \* the call that is writing to the class columns, between its writes
    eventIn,        \* get_last_event_block_number: the L1 chain's latest block and logs
    eventOut        \* Option of what get_last_event_block_number did for eventIn

vars == <<mutex, caller, task, blocks, latest, pending, contractTrie, classTrie,
          orderIgnored, budget, rootIn, rootOut, hashIn, hashOut,
          classInfo, classCompiled, pendingClassInfo, pendingClassCompiled, classOp,
          classWriter, eventIn, eventOut>>
backendVars == <<blocks, latest, pending, contractTrie, classTrie>>
rootVars == <<rootIn, rootOut>>
hashVars == <<hashIn, hashOut>>
classColumns == <<classInfo, classCompiled, pendingClassInfo, pendingClassCompiled>>
classVars == <<classColumns, classOp, classWriter>>
eventVars == <<eventIn, eventOut>>
\* What the steps of an import leave alone.
asideVars == <<rootVars, hashVars, classVars, eventVars>>
importVars == <<mutex, caller, task, backendVars, orderIgnored, budget>>

\* ----------------------------------------------------------- primitives
\* Poseidon::hash_array over felts: a fixed function of the sequence.
RECURSIVE PoseidonFold(_, _)
PoseidonFold(acc, xs) ==
    IF xs = <<>> THEN acc
    ELSE PoseidonFold((3 * acc + Head(xs) + 1) % (MaxFelt + 1), Tail(xs))

Poseidon_hash_array(xs) == PoseidonFold(1, xs)

\* Felt::from_hex_unchecked on the bytes of a hex literal (big-endian), reduced to the
\* model's felts.
RECURSIVE FeltFromBytes(_, _)
FeltFromBytes(acc, bytes) ==
    IF bytes = <<>> THEN acc
    ELSE FeltFromBytes((256 * acc + Head(bytes)) % (MaxFelt + 1), Tail(bytes))

\* The bytes of the literal 0x535441524b4e45545f53544154455f5630.
STARKNET_STATE_PREFIX_BYTES ==
    <<83, 84, 65, 82, 75, 78, 69, 84, 95, 83, 84, 65, 84, 69, 95, 86, 48>>

\* const STARKNET_STATE_PREFIX
STARKNET_STATE_PREFIX == FeltFromBytes(0, STARKNET_STATE_PREFIX_BYTES)

\* ChainId::to_felt
ChainIds == {"Mainnet", "Sepolia"}
ChainToFelt(chain_id) == IF chain_id = "Mainnet" THEN 1 ELSE 2

\* Header::compute_hash(chain_id): a fixed function of the header and the chain id.
compute_hash(header, chain_id) ==
    Poseidon_hash_array(<<header.block_number, header.global_state_root,
                          header.parent_block_hash, ChainToFelt(chain_id)>>)

\* The root of a trie holding the keys `keys`; the empty trie's root is Felt::ZERO.
RECURSIVE SumKeys(_)
SumKeys(keys) ==
    IF keys = {} THEN 0
    ELSE LET k == CHOOSE x \in keys : TRUE IN k + SumKeys(keys \ {k})

TrieRoot(keys) ==
    IF keys = {} THEN FeltZERO ELSE 1 + ((SumKeys(keys) - 1) % MaxFelt)

\* ------------------------------------------------------------- results
Ok == [kind |-> "Ok", expected |-> 0, got |-> 0]
Err(kind, expected, got) == [kind |-> kind, expected |-> expected, got |-> got]
\* BlockImportError::InternalDb { context, error }
InternalDb == Err("InternalDb", 0, 0)
\* BlockImportError::Internal(..)
Internal == Err("Internal", 0, 0)

\* -------------------------------------------------- verify_apply.rs helpers
\* backend.get_block_info(&BlockId::Tag(BlockTag::Latest)) of a healthy store.
LatestBlockInfo ==
    IF latest = None THEN None
    ELSE Some([pending |-> FALSE, block_number |-> latest[1],
               block_hash |-> blocks[latest[1]][1].block_hash])

\* The answer of get_block_info when the latest block it finds is a pending one.
PendingBlockInfo == [pending |-> TRUE]

\* Variants of check_parent_hash_and_num that the properties below must tell apart
\* from the code. This one checks number and parent hash whatever ignore_block_order is.
check_parent_hash_and_num_AlwaysChecks(latest_block_info, parent_block_hash, unverified_block_number, ignore_block_order) ==
    LET expected_block_number ==
            IF latest_block_info # None THEN latest_block_info[1].block_number + 1 ELSE 0
        expected_parent_block_hash ==
            IF latest_block_info # None THEN latest_block_info[1].block_hash ELSE FeltZERO
        block_number ==
            IF unverified_block_number # None THEN unverified_block_number[1]
            ELSE expected_block_number
    IN  IF latest_block_info # None /\ latest_block_info[1].pending
        THEN [result |-> Internal, block_number |-> 0, parent_block_hash |-> FeltZERO]
        ELSE IF /\ unverified_block_number # None
                /\ unverified_block_number[1] # expected_block_number
        THEN [result |-> Err("LatestBlockN", expected_block_number, unverified_block_number[1]),
              block_number |-> 0, parent_block_hash |-> FeltZERO]
        ELSE IF /\ parent_block_hash # None
                /\ parent_block_hash[1] # expected_parent_block_hash
        THEN [result |-> Err("ParentHash", expected_parent_block_hash, parent_block_hash[1]),
              block_number |-> 0, parent_block_hash |-> FeltZERO]
        ELSE [result |-> Ok, block_number |-> block_number,
              parent_block_hash |-> expected_parent_block_hash]

\* This one never reports a block number mismatch.
check_parent_hash_and_num_NoNumberCheck(latest_block_info, parent_block_hash, unverified_block_number, ignore_block_order) ==
    LET expected_block_number ==
            IF latest_block_info # None THEN latest_block_info[1].block_number + 1 ELSE 0
        expected_parent_block_hash ==
            IF latest_block_info # None THEN latest_block_info[1].block_hash ELSE FeltZERO
        block_number ==
            IF unverified_block_number # None THEN unverified_block_number[1]
            ELSE expected_block_number
    IN  IF latest_block_info # None /\ latest_block_info[1].pending
        THEN [result |-> Internal, block_number |-> 0, parent_block_hash |-> FeltZERO]
        ELSE IF /\ unverified_block_number # None
                /\ unverified_block_number[1] # expected_block_number
                /\ FALSE
        THEN [result |-> Err("LatestBlockN", expected_block_number, unverified_block_number[1]),
              block_number |-> 0, parent_block_hash |-> FeltZERO]
        ELSE IF /\ parent_block_hash # None
                /\ parent_block_hash[1] # expected_parent_block_hash
                /\ ~ignore_block_order
        THEN [result |-> Err("ParentHash", expected_parent_block_hash, parent_block_hash[1]),
              block_number |-> 0, parent_block_hash |-> FeltZERO]
        ELSE [result |-> Ok, block_number |-> block_number,
              parent_block_hash |-> expected_parent_block_hash]

\* This one never reports a parent hash mismatch.
check_parent_hash_and_num_NoParentCheck(latest_block_info, parent_block_hash, unverified_block_number, ignore_block_order) ==
    LET expected_block_number ==
            IF latest_block_info # None THEN latest_block_info[1].block_number + 1 ELSE 0
        expected_parent_block_hash ==
            IF latest_block_info # None THEN latest_block_info[1].block_hash ELSE FeltZERO
        block_number ==
            IF unverified_block_number # None THEN unverified_block_number[1]
            ELSE expected_block_number
    IN  IF latest_block_info # None /\ latest_block_info[1].pending
        THEN [result |-> Internal, block_number |-> 0, parent_block_hash |-> FeltZERO]
        ELSE IF /\ unverified_block_number # None
                /\ unverified_block_number[1] # expected_block_number
                /\ ~ignore_block_order
        THEN [result |-> Err("LatestBlockN", expected_block_number, unverified_block_number[1]),
              block_number |-> 0, parent_block_hash |-> FeltZERO]
        ELSE IF /\ parent_block_hash # None
                /\ parent_block_hash[1] # expected_parent_block_hash
                /\ FALSE
        THEN [result |-> Err("ParentHash", expected_parent_block_hash, parent_block_hash[1]),
              block_number |-> 0, parent_block_hash |-> FeltZERO]
        ELSE [result |-> Ok, block_number |-> block_number,
              parent_block_hash |-> expected_parent_block_hash]

\* This one returns the claimed parent hash where there is one.
check_parent_hash_and_num_ClaimedParent(latest_block_info, parent_block_hash, unverified_block_number, ignore_block_order) ==
    LET expected_block_number ==
            IF latest_block_info # None THEN latest_block_info[1].block_number + 1 ELSE 0
        expected_parent_block_hash ==
            IF latest_block_info # None THEN latest_block_info[1].block_hash ELSE FeltZERO
        block_number ==
            IF unverified_block_number # None THEN unverified_block_number[1]
            ELSE expected_block_number
    IN  IF latest_block_info # None /\ latest_block_info[1].pending
        THEN [result |-> Internal, block_number |-> 0, parent_block_hash |-> FeltZERO]
        ELSE IF /\ unverified_block_number # None
                /\ unverified_block_number[1] # expected_block_number
                /\ ~ignore_block_order
        THEN [result |-> Err("LatestBlockN", expected_block_number, unverified_block_number[1]),
              block_number |-> 0, parent_block_hash |-> FeltZERO]
        ELSE IF /\ parent_block_hash # None
                /\ parent_block_hash[1] # expected_parent_block_hash
                /\ ~ignore_block_order
        THEN [result |-> Err("ParentHash", expected_parent_block_hash, parent_block_hash[1]),
              block_number |-> 0, parent_block_hash |-> FeltZERO]
        ELSE [result |-> Ok, block_number |-> block_number,
              parent_block_hash |-> IF parent_block_hash # None THEN parent_block_hash[1]
                                    ELSE expected_parent_block_hash]

\* This one takes a pending latest block for no block at all.
check_parent_hash_and_num_PendingIsAbsent(latest_block_info, parent_block_hash, unverified_block_number, ignore_block_order) ==
    LET expected_block_number ==
            IF latest_block_info # None /\ ~latest_block_info[1].pending
            THEN latest_block_info[1].block_number + 1 ELSE 0
        expected_parent_block_hash ==
            IF latest_block_info # None /\ ~latest_block_info[1].pending
            THEN latest_block_info[1].block_hash ELSE FeltZERO
        block_number ==
            IF unverified_block_number # None THEN unverified_block_number[1]
            ELSE expected_block_number
    IN  IF FALSE
        THEN [result |-> Internal, block_number |-> 0, parent_block_hash |-> FeltZERO]
        ELSE IF /\ unverified_block_number # None
                /\ unverified_block_number[1] # expected_block_number
                /\ ~ignore_block_order
        THEN [result |-> Err("LatestBlockN", expected_block_number, unverified_block_number[1]),
              block_number |-> 0, parent_block_hash |-> FeltZERO]
        ELSE IF /\ parent_block_hash # None
                /\ parent_block_hash[1] # expected_parent_block_hash
                /\ ~ignore_block_order
        THEN [result |-> Err("ParentHash", expected_parent_block_hash, parent_block_hash[1]),
              block_number |-> 0, parent_block_hash |-> FeltZERO]
        ELSE [result |-> Ok, block_number |-> block_number,
              parent_block_hash |-> expected_parent_block_hash]

\* fn check_parent_hash_and_num, with the answer of get_block_info as an argument:
\* the result, the block number and the parent hash for the header.
check_parent_hash_and_num(latest_block_info, parent_block_hash, unverified_block_number, ignore_block_order) ==
    LET expected_block_number ==
            IF latest_block_info # None THEN latest_block_info[1].block_number + 1 ELSE 0
        expected_parent_block_hash ==
            IF latest_block_info # None THEN latest_block_info[1].block_hash ELSE FeltZERO
        block_number ==
            IF unverified_block_number # None THEN unverified_block_number[1]
            ELSE expected_block_number
    IN  IF latest_block_info # None /\ latest_block_info[1].pending
        THEN [result |-> Internal, block_number |-> 0, parent_block_hash |-> FeltZERO]
        ELSE IF /\ unverified_block_number # None
                /\ unverified_block_number[1] # expected_block_number
                /\ ~ignore_block_order
        THEN [result |-> Err("LatestBlockN", expected_block_number, unverified_block_number[1]),
              block_number |-> 0, parent_block_hash |-> FeltZERO]
        ELSE IF /\ parent_block_hash # None
                /\ parent_block_hash[1] # expected_parent_block_hash
                /\ ~ignore_block_order
        THEN [result |-> Err("ParentHash", expected_parent_block_hash, parent_block_hash[1]),
              block_number |-> 0, parent_block_hash |-> FeltZERO]
        ELSE [result |-> Ok, block_number |-> block_number,
              parent_block_hash |-> expected_parent_block_hash]

\* A variant of calculate_state_root that tests the contracts root for zero.
calculate_state_root_ZeroContracts(contracts_trie_root, classes_trie_root) ==
    IF contracts_trie_root = FeltZERO
    THEN classes_trie_root
    ELSE Poseidon_hash_array(<<STARKNET_STATE_PREFIX, contracts_trie_root, classes_trie_root>>)

\* fn calculate_state_root
calculate_state_root(contracts_trie_root, classes_trie_root) ==
    IF classes_trie_root = FeltZERO
    THEN contracts_trie_root
    ELSE Poseidon_hash_array(<<STARKNET_STATE_PREFIX, contracts_trie_root, classes_trie_root>>)

\* contracts::contract_trie_root / classes::class_trie_root: the keys of the diff are
\* written to the trie and the new root is returned; a storage error writes nothing.
trie_root_update(trie, diff_keys, db_fails) ==
    IF db_fails THEN [ok |-> FALSE, trie |-> trie, root |-> FeltZERO]
    ELSE [ok |-> TRUE, trie |-> trie \cup diff_keys, root |-> TrieRoot(trie \cup diff_keys)]

\* Variants of update_tries. This one never reports a root mismatch.
update_tries_NoRootCheck(trust_global_tries, unverified_global_state_root, state_diff, db_fails) ==
    IF trust_global_tries
    THEN IF unverified_global_state_root = None
         THEN [result |-> Internal, global_state_root |-> FeltZERO,
               contractTrie |-> contractTrie, classTrie |-> classTrie]
         ELSE [result |-> Ok, global_state_root |-> unverified_global_state_root[1],
               contractTrie |-> contractTrie, classTrie |-> classTrie]
    ELSE LET contract_trie_root ==
                 trie_root_update(contractTrie, state_diff.contracts, db_fails.contracts)
             class_trie_root ==
                 trie_root_update(classTrie, state_diff.classes, db_fails.classes)
             state_root == calculate_state_root(contract_trie_root.root, class_trie_root.root)
         IN  IF ~contract_trie_root.ok \/ ~class_trie_root.ok
             THEN [result |-> InternalDb, global_state_root |-> FeltZERO,
                   contractTrie |-> contract_trie_root.trie, classTrie |-> class_trie_root.trie]
             ELSE IF /\ unverified_global_state_root # None
                     /\ unverified_global_state_root[1] # state_root
                     /\ FALSE
             THEN [result |-> Err("GlobalStateRoot", unverified_global_state_root[1], state_root),
                   global_state_root |-> FeltZERO,
                   contractTrie |-> contract_trie_root.trie, classTrie |-> class_trie_root.trie]
             ELSE [result |-> Ok, global_state_root |-> state_root,
                   contractTrie |-> contract_trie_root.trie, classTrie |-> class_trie_root.trie]

\* This one updates the tries whatever trust_global_tries is.
update_tries_IgnoresTrust(trust_global_tries, unverified_global_state_root, state_diff, db_fails) ==
    IF FALSE
    THEN IF unverified_global_state_root = None
         THEN [result |-> Internal, global_state_root |-> FeltZERO,
               contractTrie |-> contractTrie, classTrie |-> classTrie]
         ELSE [result |-> Ok, global_state_root |-> unverified_global_state_root[1],
               contractTrie |-> contractTrie, classTrie |-> classTrie]
    ELSE LET contract_trie_root ==
                 trie_root_update(contractTrie, state_diff.contracts, db_fails.contracts)
             class_trie_root ==
                 trie_root_update(classTrie, state_diff.classes, db_fails.classes)
             state_root == calculate_state_root(contract_trie_root.root, class_trie_root.root)
         IN  IF ~contract_trie_root.ok \/ ~class_trie_root.ok
             THEN [result |-> InternalDb, global_state_root |-> FeltZERO,
                   contractTrie |-> contract_trie_root.trie, classTrie |-> class_trie_root.trie]
             ELSE IF /\ unverified_global_state_root # None
                     /\ unverified_global_state_root[1] # state_root
             THEN [result |-> Err("GlobalStateRoot", unverified_global_state_root[1], state_root),
                   global_state_root |-> FeltZERO,
                   contractTrie |-> contract_trie_root.trie, classTrie |-> class_trie_root.trie]
             ELSE [result |-> Ok, global_state_root |-> state_root,
                   contractTrie |-> contract_trie_root.trie, classTrie |-> class_trie_root.trie]

\* update_tries: the result, the global state root and the tries it leaves behind.
\* state_diff is [contracts, classes]; db_fails is [contracts, classes].
update_tries(trust_global_tries, unverified_global_state_root, state_diff, db_fails) ==
    IF trust_global_tries
    THEN IF unverified_global_state_root = None
         THEN [result |-> Internal, global_state_root |-> FeltZERO,
               contractTrie |-> contractTrie, classTrie |-> classTrie]
         ELSE [result |-> Ok, global_state_root |-> unverified_global_state_root[1],
               contractTrie |-> contractTrie, classTrie |-> classTrie]
    ELSE LET contract_trie_root ==
                 trie_root_update(contractTrie, state_diff.contracts, db_fails.contracts)
             class_trie_root ==
                 trie_root_update(classTrie, state_diff.classes, db_fails.classes)
             state_root == calculate_state_root(contract_trie_root.root, class_trie_root.root)
         IN  IF ~contract_trie_root.ok \/ ~class_trie_root.ok
             THEN [result |-> InternalDb, global_state_root |-> FeltZERO,
                   contractTrie |-> contract_trie_root.trie, classTrie |-> class_trie_root.trie]
             ELSE IF /\ unverified_global_state_root # None
                     /\ unverified_global_state_root[1] # state_root
             THEN [result |-> Err("GlobalStateRoot", unverified_global_state_root[1], state_root),
                   global_state_root |-> FeltZERO,
                   contractTrie |-> contract_trie_root.trie, classTrie |-> class_trie_root.trie]
             ELSE [result |-> Ok, global_state_root |-> state_root,
                   contractTrie |-> contract_trie_root.trie, classTrie |-> class_trie_root.trie]

\* A variant of is_special_trusted_case whose range leaves out its first block.
is_special_trusted_case_WithoutFirst(chain_id, block_number) ==
    chain_id = "Mainnet" /\ block_number \in 1467..2242

\* mismatched block hash is allowed for blocks 1466..=2242 on mainnet
is_special_trusted_case(chain_id, block_number) ==
    chain_id = "Mainnet" /\ block_number \in 1466..2242

\* A variant of block_hash in which an overridden mismatch keeps the asserted hash.
block_hash_OverrideKeepsAsserted(unverified_block_hash, chain_id, ignore_block_order, block_number, parent_block_hash, global_state_root) ==
    LET header == [parent_block_hash |-> parent_block_hash,
                   block_number |-> block_number,
                   global_state_root |-> global_state_root]
        computed == compute_hash(header, chain_id)
    IN  IF unverified_block_hash # None /\ is_special_trusted_case(chain_id, block_number)
        THEN [result |-> Ok, block_hash |-> unverified_block_hash[1], header |-> header]
        ELSE IF /\ unverified_block_hash # None
                /\ unverified_block_hash[1] # computed
                /\ ~ignore_block_order
        THEN [result |-> Err("BlockHash", unverified_block_hash[1], computed),
              block_hash |-> FeltZERO, header |-> header]
        ELSE IF unverified_block_hash # None
        THEN [result |-> Ok, block_hash |-> unverified_block_hash[1], header |-> header]
        ELSE [result |-> Ok, block_hash |-> computed, header |-> header]

\* block_hash: the result, the block hash and the header.
block_hash(unverified_block_hash, chain_id, ignore_block_order, block_number, parent_block_hash, global_state_root) ==
    LET header == [parent_block_hash |-> parent_block_hash,
                   block_number |-> block_number,
                   global_state_root |-> global_state_root]
        computed == compute_hash(header, chain_id)
    IN  IF unverified_block_hash # None /\ is_special_trusted_case(chain_id, block_number)
        THEN [result |-> Ok, block_hash |-> unverified_block_hash[1], header |-> header]
        ELSE IF /\ unverified_block_hash # None
                /\ unverified_block_hash[1] # computed
                /\ ~ignore_block_order
        THEN [result |-> Err("BlockHash", unverified_block_hash[1], computed),
              block_hash |-> FeltZERO, header |-> header]
        ELSE [result |-> Ok, block_hash |-> computed, header |-> header]

\* ---------------------------------------------------------------- state
\* The closure a call hands to the pool: its position, the values the steps of the
\* inner import pass on, and its Result. latest_seen, claimed_parent and claimed_n are
\* what check_parent_hash_and_num was given, claimed_hash and chain_id what block_hash
\* was given, kept where a specification observes them; wrote says that the import has
\* changed a trie or stored a block.
NoTask ==
    [pc |-> "none", kind |-> "final", ignore_block_order |-> FALSE,
     checked |-> FALSE, latest_seen |-> None, claimed_parent |-> None, claimed_n |-> None,
     claimed_hash |-> None, chain_id |-> "Mainnet",
     block_number |-> 0, parent_block_hash |-> FeltZERO, global_state_root |-> FeltZERO,
     wrote |-> FALSE, result |-> Ok, block_hash |-> FeltZERO]

\* A task that has begun on the pool and has not returned.
Executing(c) == task[c].pc \in {"check", "tries", "store"}

InitBackend ==
    /\ blocks = [n \in BlockNs |-> None]
    /\ latest = None
    /\ pending = None
    /\ contractTrie = {}
    /\ classTrie = {}

InitCalls ==
    /\ mutex = None
    /\ caller = [c \in Calls |-> "idle"]
    /\ task = [c \in Calls |-> NoTask]
    /\ orderIgnored = FALSE

InitRoot ==
    /\ rootIn = <<FeltZERO, FeltZERO>>
    /\ rootOut = None

\* block_hash on its own has not been applied.
InitHash ==
    /\ hashIn = [unverified_block_hash |-> None, chain_id |-> "Mainnet",
                 ignore_block_order |-> FALSE, block_number |-> 0,
                 parent_block_hash |-> FeltZERO, global_state_root |-> FeltZERO]
    /\ hashOut = None

\* The class columns of a new database are empty.
InitClasses ==
    /\ classInfo = [h \in Felt |-> None]
    /\ classCompiled = [h \in Felt |-> None]
    /\ pendingClassInfo = [h \in Felt |-> None]
    /\ pendingClassCompiled = [h \in Felt |-> None]
    /\ classOp = [op |-> "none"]
    /\ classWriter = [pc |-> "idle"]

\* get_last_event_block_number has not been called.
InitEvents ==
    /\ eventIn = [latest_block |-> 0, logs |-> <<>>]
    /\ eventOut = None

InitAside ==
    /\ InitRoot
    /\ InitHash
    /\ InitClasses
    /\ InitEvents

Init ==
    /\ InitCalls
    /\ InitBackend
    /\ InitAside
    /\ budget = MaxImports

\* ------------------------------------------------------ VerifyApply's callers
\* verify_apply / verify_apply_pending is called: the future awaits self.mutex.lock().
\* Calls are interchangeable, so a new one takes the lowest free place.
Call(c) ==
    /\ budget > 0
    /\ caller[c] = "idle"
    /\ task[c].pc = "none"
    /\ \A d \in Calls : d < c => caller[d] # "idle" \/ task[d].pc # "none"
    /\ \E kind \in {"final", "pending"} :
           task' = [task EXCEPT ![c] = [NoTask EXCEPT !.kind = kind]]
    /\ caller' = [caller EXCEPT ![c] = "waiting"]
    /\ budget' = budget - 1
    /\ UNCHANGED <<mutex, backendVars, orderIgnored, asideVars>>

\* The lock is granted and the closure is handed to the pool (spawn_rayon_task).
Acquire(c) ==
    /\ caller[c] = "waiting"
    /\ mutex = None
    /\ mutex' = Some(c)
    /\ caller' = [caller EXCEPT ![c] = "awaiting"]
    /\ task' = [task EXCEPT ![c].pc = "queued"]
    /\ UNCHANGED <<backendVars, orderIgnored, budget, asideVars>>

\* A variant of Return that keeps the lock when the import failed.
Return_KeepsLockOnError(c) ==
    /\ caller[c] = "awaiting"
    /\ task[c].pc = "finished"
    /\ mutex' = IF task[c].result = Ok THEN None ELSE mutex
    /\ caller' = [caller EXCEPT ![c] = "idle"]
    /\ task' = [task EXCEPT ![c] = NoTask]
    /\ UNCHANGED <<backendVars, orderIgnored, budget, asideVars>>

\* The future resolves with the task's result; _exclusive is dropped as the fn ends.
Return(c) ==
    /\ caller[c] = "awaiting"
    /\ task[c].pc = "finished"
    /\ mutex' = None
    /\ caller' = [caller EXCEPT ![c] = "idle"]
    /\ task' = [task EXCEPT ![c] = NoTask]
    /\ UNCHANGED <<backendVars, orderIgnored, budget, asideVars>>

\* The caller drops the future while it awaits the lock: nothing was spawned.
DropWaiting(c) ==
    /\ caller[c] = "waiting"
    /\ caller' = [caller EXCEPT ![c] = "idle"]
    /\ task' = [task EXCEPT ![c] = NoTask]
    /\ UNCHANGED <<mutex, backendVars, orderIgnored, budget, asideVars>>

\* The caller drops the future while it awaits the spawned task: the locals of the
\* future, _exclusive among them, are dropped; the closure stays with the pool.
DropAwaiting(c) ==
    /\ caller[c] = "awaiting"
    /\ mutex' = None
    /\ caller' = [caller EXCEPT ![c] = "dropped"]
    /\ UNCHANGED <<task, backendVars, orderIgnored, budget, asideVars>>

\* The task of a dropped future ends: its result has no receiver.
Discard(c) ==
    /\ caller[c] = "dropped"
    /\ task[c].pc = "finished"
    /\ caller' = [caller EXCEPT ![c] = "idle"]
    /\ task' = [task EXCEPT ![c] = NoTask]
    /\ UNCHANGED <<mutex, backendVars, orderIgnored, budget, asideVars>>

\* ------------------------------------------------------------ the pool
\* A pool thread picks the closure up.
TaskStart(c) ==
    /\ task[c].pc = "queued"
    /\ task' = [task EXCEPT ![c].pc = "check"]
    /\ UNCHANGED <<mutex, caller, backendVars, orderIgnored, budget, asideVars>>

\* How an inner import ends with an error: only the Result is left of the task.
Failed(t, result) == [NoTask EXCEPT !.kind = t.kind, !.pc = "finished", !.result = result]

\* check_parent_hash_and_num, first step of verify_apply_inner and of
\* verify_apply_pending_inner (which passes None for the block number), for given
\* inputs: the claims of the block, the flag, and whether get_block_info fails or finds
\* a pending block. With `keep` the task keeps what the check was given.
CheckWith(c, keep, claimed_parent, claimed_n, ign, db_fails, latest_is_pending) ==
    /\ task[c].pc = "check"
    /\ LET t == [task[c] EXCEPT !.ignore_block_order = ign]
           number == IF t.kind = "final" THEN claimed_n ELSE None
           latest_block_info == IF latest_is_pending THEN Some(PendingBlockInfo)
                                ELSE LatestBlockInfo
           r == check_parent_hash_and_num(latest_block_info, claimed_parent, number, ign)
           given == [checked |-> TRUE, latest_seen |-> latest_block_info,
                     claimed_parent |-> claimed_parent, claimed_n |-> number,
                     ignore_block_order |-> ign]
           failed == Failed(t, r.result)
           passed == [t EXCEPT !.pc = IF t.kind = "final" THEN "tries" ELSE "store",
                               !.block_number = r.block_number,
                               !.parent_block_hash = r.parent_block_hash]
       IN  /\ t.kind = "pending" => claimed_n = None
           /\ IF db_fails
              THEN task' = [task EXCEPT ![c] = Failed(t, InternalDb)]
              ELSE IF r.result # Ok
              THEN task' = [task EXCEPT ![c] =
                               IF ~keep THEN failed
                               ELSE IF latest_is_pending
                               THEN [failed EXCEPT !.ignore_block_order = ign]
                               ELSE given @@ failed]
              ELSE /\ r.block_number \in BlockNs
                   /\ task' = [task EXCEPT ![c] = IF keep THEN given @@ passed ELSE passed]
    /\ UNCHANGED <<mutex, caller, backendVars, orderIgnored, budget, asideVars>>

\* The check on a backend whose latest block is a finalized one, or none. When
\* get_block_info fails the claims of the block and the flag play no part.
CheckStep(c, keep) ==
    \/ \E claimed_parent \in Option(Felt), claimed_n \in Option(BlockNs), ign \in BOOLEAN :
           CheckWith(c, keep, claimed_parent, claimed_n, ign, FALSE, FALSE)
    \/ CheckWith(c, keep, None, None, FALSE, TRUE, FALSE)

\* The check when get_block_info finds a pending block as the latest.
CheckPendingLatest(c) ==
    \E claimed_parent \in Option(Felt), claimed_n \in Option(BlockNs), ign \in BOOLEAN :
        CheckWith(c, TRUE, claimed_parent, claimed_n, ign, FALSE, TRUE)

Check(c) == CheckStep(c, FALSE)

CheckObserved(c) == CheckStep(c, TRUE)

\* update_tries, second step of verify_apply_inner, for given inputs. With `keep` an
\* import that fails here keeps the flag it ran with.
TriesWith(c, keep, trust, root, diff, db_fails) ==
    /\ task[c].pc = "tries"
    /\ LET t == task[c]
           r == update_tries(trust, root, diff, db_fails)
           wrote == r.contractTrie # contractTrie \/ r.classTrie # classTrie
           failed == [Failed(t, r.result) EXCEPT !.wrote = wrote]
       IN  /\ contractTrie' = r.contractTrie
           /\ classTrie' = r.classTrie
           /\ IF r.result # Ok
              THEN task' = [task EXCEPT ![c] =
                               IF keep
                               THEN [failed EXCEPT !.ignore_block_order = t.ignore_block_order]
                               ELSE failed]
              ELSE task' = [task EXCEPT ![c] =
                               [t EXCEPT !.pc = "store",
                                         !.global_state_root = r.global_state_root,
                                         !.wrote = wrote]]
    /\ UNCHANGED <<mutex, caller, blocks, latest, pending, orderIgnored, budget, asideVars>>

\* The state diffs of a block and the storage failures of the two trie updates.
TrieDiffs == [contracts : SUBSET Keys, classes : SUBSET Keys]
TrieFailures == [contracts : BOOLEAN, classes : BOOLEAN]

NoTrieFailure == [contracts |-> FALSE, classes |-> FALSE]
NoDiff == [contracts |-> {}, classes |-> {}]

\* update_tries over its inputs. With trust_global_tries the state diff and the storage
\* play no part; when a trie update fails the asserted root plays no part.
TriesStep(c, keep) ==
    \/ \E root \in Option(Felt) : TriesWith(c, keep, TRUE, root, NoDiff, NoTrieFailure)
    \/ \E root \in Option(Felt), diff \in TrieDiffs :
           TriesWith(c, keep, FALSE, root, diff, NoTrieFailure)
    \/ \E diff \in TrieDiffs, db_fails \in TrieFailures \ {NoTrieFailure} :
           TriesWith(c, keep, FALSE, None, diff, db_fails)

Tries(c) == TriesStep(c, FALSE)

TriesObserved(c) == TriesStep(c, TRUE)

\* A variant of store_block that keeps the block and leaves the latest block as it was.
store_block_final_KeepsLatest(header, hash) ==
    /\ blocks' = [blocks EXCEPT ![header.block_number] =
                     Some([header |-> header, block_hash |-> hash])]
    /\ latest' = latest

\* backend.store_block of a finalized block: the block is kept under its number and is
\* the latest from then on.
store_block_final(header, hash) ==
    /\ blocks' = [blocks EXCEPT ![header.block_number] =
                     Some([header |-> header, block_hash |-> hash])]
    /\ latest' = Some(header.block_number)

\* block_hash and backend.store_block, last steps of verify_apply_inner, for given
\* inputs: the asserted hash of the block, the chain id, and whether store_block fails.
\* With `keep` the task keeps what block_hash was given. Where nothing is kept a failure
\* of store_block leaves the same behind whatever the asserted hash and the chain are.
StoreFinalWith(c, keep, claimed_hash, chain_id, db_fails) ==
    /\ task[c].pc = "store"
    /\ task[c].kind = "final"
    /\ LET t == task[c]
           r == block_hash(claimed_hash, chain_id, t.ignore_block_order, t.block_number,
                           t.parent_block_hash, t.global_state_root)
           Given(end) == IF keep
                         THEN [end EXCEPT !.claimed_hash = claimed_hash,
                                          !.chain_id = chain_id,
                                          !.ignore_block_order = t.ignore_block_order]
                         ELSE end
       IN  IF r.result # Ok
           THEN /\ task' = [task EXCEPT ![c] =
                                Given([Failed(t, r.result) EXCEPT !.wrote = t.wrote])]
                /\ UNCHANGED <<blocks, latest, orderIgnored>>
           ELSE IF db_fails
           THEN /\ task' = [task EXCEPT ![c] =
                                Given([Failed(t, InternalDb) EXCEPT !.wrote = t.wrote])]
                /\ UNCHANGED <<blocks, latest, orderIgnored>>
           ELSE /\ store_block_final(r.header, r.block_hash)
                /\ orderIgnored' = (orderIgnored \/ t.ignore_block_order)
                /\ task' = [task EXCEPT ![c] =
                               Given([t EXCEPT !.pc = "finished", !.result = Ok,
                                               !.block_hash = r.block_hash, !.wrote = TRUE])]
    /\ UNCHANGED <<mutex, caller, pending, contractTrie, classTrie, budget, asideVars>>

StoreFinal(c) ==
    \/ \E claimed_hash \in Option(Felt), chain_id \in ChainIds :
           StoreFinalWith(c, FALSE, claimed_hash, chain_id, FALSE)
    \/ StoreFinalWith(c, FALSE, None, "Mainnet", TRUE)

\* The same with its inputs kept.
StoreFinalObserved(c) ==
    \E claimed_hash \in Option(Felt), chain_id \in ChainIds, db_fails \in BOOLEAN :
        StoreFinalWith(c, TRUE, claimed_hash, chain_id, db_fails)

\* A variant of StorePending in which the pending block becomes the latest block.
StorePending_AdvancesLatest(c) ==
    /\ task[c].pc = "store"
    /\ task[c].kind = "pending"
    /\ \E db_fails \in BOOLEAN :
         LET t == task[c]
         IN  IF db_fails
             THEN /\ task' = [task EXCEPT ![c] = Failed(t, InternalDb)]
                  /\ UNCHANGED <<pending, latest>>
             ELSE /\ pending' = Some([parent_block_hash |-> t.parent_block_hash])
                  /\ latest' = IF latest = None THEN latest ELSE None
                  /\ task' = [task EXCEPT ![c] =
                                 [t EXCEPT !.pc = "finished", !.result = Ok, !.wrote = TRUE]]
    /\ UNCHANGED <<mutex, caller, blocks, contractTrie, classTrie, orderIgnored,
                   budget, asideVars>>

\* backend.store_block of a pending block, last step of verify_apply_pending_inner.
StorePending(c) ==
    /\ task[c].pc = "store"
    /\ task[c].kind = "pending"
    /\ \E db_fails \in BOOLEAN :
         LET t == task[c]
         IN  IF db_fails
             THEN /\ task' = [task EXCEPT ![c] = Failed(t, InternalDb)]
                  /\ UNCHANGED pending
             ELSE /\ pending' = Some([parent_block_hash |-> t.parent_block_hash])
                  /\ task' = [task EXCEPT ![c] =
                                 [t EXCEPT !.pc = "finished", !.result = Ok, !.wrote = TRUE]]
    /\ UNCHANGED <<mutex, caller, blocks, latest, contractTrie, classTrie, orderIgnored,
                   budget, asideVars>>

Next ==
    \E c \in Calls :
        \/ Call(c)
        \/ Acquire(c)
        \/ Return(c)
        \/ DropWaiting(c)
        \/ DropAwaiting(c)
        \/ Discard(c)
        \/ TaskStart(c)
        \/ Check(c)
        \/ Tries(c)
        \/ StoreFinal(c)
        \/ StorePending(c)

Spec == Init /\ [][Next]_vars

\* The same system with the inputs of every continuity check kept in its task.
InitObserved ==
    /\ InitCalls
    /\ InitBackend
    /\ InitAside
    /\ budget = MaxObserved

NextObserved ==
    \E c \in Calls :
        \/ Call(c)
        \/ Acquire(c)
        \/ Return(c)
        \/ DropWaiting(c)
        \/ DropAwaiting(c)
        \/ Discard(c)
        \/ TaskStart(c)
        \/ CheckObserved(c)
        \/ TriesObserved(c)
        \/ StoreFinal(c)
        \/ StorePending(c)

SpecObserved == InitObserved /\ [][NextObserved]_vars

\* The system over two calls.
InitPair ==
    /\ InitCalls
    /\ InitBackend
    /\ InitAside
    /\ budget = MaxPair

SpecPair == InitPair /\ [][Next]_vars

\* The same under fair scheduling. The pool runs a closure it was handed to its end
\* (every inner import terminates), a future that is not dropped is polled until it
\* resolves, and a waiter gets a lock that stays free (tokio's Mutex is fair to its
\* waiters). Nothing obliges a caller to drop a future.
PoolStep(c) ==
    \/ TaskStart(c)
    \/ Check(c)
    \/ Tries(c)
    \/ StoreFinal(c)
    \/ StorePending(c)

Fairness ==
    \A c \in Calls :
        /\ WF_vars(PoolStep(c))
        /\ WF_vars(Return(c))
        /\ WF_vars(Discard(c))
        /\ WF_vars(Acquire(c))

SpecFair == SpecPair /\ Fairness

\* calculate_state_root on its own, over every pair of roots in 0..MaxRootArg.
InitCombine ==
    /\ InitCalls
    /\ InitBackend
    /\ budget = 0
    /\ rootIn \in (0..MaxRootArg) \X (0..MaxRootArg)
    /\ rootOut = None
    /\ InitHash
    /\ InitClasses
    /\ InitEvents

Combine ==
    /\ rootOut = None
    /\ rootOut' = Some(calculate_state_root(rootIn[1], rootIn[2]))
    /\ UNCHANGED <<importVars, rootIn, hashVars, classVars, eventVars>>

SpecCombine == InitCombine /\ [][Combine]_vars

\* One import on a new database, the inputs of its steps observed, with a backend that
\* may find a pending block as the latest.
InitSingle ==
    /\ InitCalls
    /\ InitBackend
    /\ InitAside
    /\ budget = MaxSingle

NextSingle ==
    \E c \in Calls :
        \/ Call(c)
        \/ Acquire(c)
        \/ Return(c)
        \/ DropWaiting(c)
        \/ DropAwaiting(c)
        \/ Discard(c)
        \/ TaskStart(c)
        \/ CheckObserved(c)
        \/ CheckPendingLatest(c)
        \/ TriesObserved(c)
        \/ StoreFinalObserved(c)
        \/ StorePending(c)

SpecSingle == InitSingle /\ [][NextSingle]_vars

\* block_hash on its own: the block numbers of the model and those around the ends of
\* the range 1466..=2242.
HashBlockNs == BlockNs \cup {1465, 1466, 1467, 2241, 2242, 2243}

InitBlockHash ==
    /\ InitCalls
    /\ InitBackend
    /\ InitRoot
    /\ InitClasses
    /\ InitEvents
    /\ budget = 0
    /\ hashIn \in [unverified_block_hash : Option(Felt), chain_id : ChainIds,
                    ignore_block_order : BOOLEAN, block_number : HashBlockNs,
                    parent_block_hash : Felt, global_state_root : Felt]
    /\ hashOut = None

HashBlock ==
    /\ hashOut = None
    /\ hashOut' = Some(block_hash(hashIn.unverified_block_hash, hashIn.chain_id,
                                  hashIn.ignore_block_order, hashIn.block_number,
                                  hashIn.parent_block_hash, hashIn.global_state_root))
    /\ UNCHANGED <<importVars, rootVars, hashIn, classVars, eventVars>>

SpecBlockHash == InitBlockHash /\ [][HashBlock]_vars

\* ------------------------------------------------------------- class_db.rs
\* DbBlockId
Pending == [pending |-> TRUE, block_n |-> 0]
BlockN(n) == [pending |-> FALSE, block_n |-> n]
DbBlockIds == {Pending} \cup {BlockN(n) : n \in BlockNs}

Versions == 1..MaxVersion

\* ClassInfo: a legacy class, or a Sierra class, whose info names its compiled class hash.
ClassInfos ==
    [sierra : {FALSE}, compiled_class_hash : {FeltZERO}, version : Versions]
        \cup [sierra : {TRUE}, compiled_class_hash : Felt, version : {1}]

\* ConvertedClass: class_hash(), info(), and for ConvertedClass::Sierra the compiled program.
ConvertedClasses ==
    {cl \in [class_hash : Felt, info : ClassInfos, compiled : Versions] :
        ~cl.info.sierra => cl.compiled = 1}

RECURSIVE SeqsUpTo(_, _)
SeqsUpTo(S, n) ==
    IF n = 0 THEN {<<>>}
    ELSE LET shorter == SeqsUpTo(S, n - 1)
         IN  shorter \cup {Append(q, x) : q \in {r \in shorter : Len(r) = n - 1}, x \in S}

ClassLists == SeqsUpTo(ConvertedClasses, MaxClasses)

\* bincode::serialize(key) of a felt: 32 bytes, big-endian.
KeyBytes(key) == [i \in 1..32 |-> IF i = 32 THEN key ELSE 0]

\* Byte strings in the order of the database's comparator: a < b.
RECURSIVE BytesLess(_, _)
BytesLess(a, b) ==
    IF b = <<>> THEN FALSE
    ELSE IF a = <<>> THEN TRUE
    ELSE IF Head(a) # Head(b) THEN Head(a) < Head(b)
    ELSE BytesLess(Tail(a), Tail(b))

\* A variant of LAST_KEY that is the empty byte string.
LAST_KEY_Empty == <<>>

\* const LAST_KEY: &[u8] = &[0xFF; 64]
LAST_KEY == [i \in 1..64 |-> 255]

\* db.delete_range_cf_opt(col, from, to): the keys in [from, to) are removed.
delete_range_cf(col, from, to) ==
    [key \in DOMAIN col |->
        IF ~BytesLess(KeyBytes(key), from) /\ BytesLess(KeyBytes(key), to)
        THEN None ELSE col[key]]

\* A variant of class_db_get_encoded_kv that reads the pending column for every reader.
class_db_get_encoded_kv_PendingForAll(is_pending, key, pending_col, nonpending_col) ==
    IF pending_col[key] # None
    THEN pending_col[key]
    ELSE nonpending_col[key]

\* Get from pending db, then normal db if not found.
class_db_get_encoded_kv(is_pending, key, pending_col, nonpending_col) ==
    IF is_pending /\ pending_col[key] # None
    THEN pending_col[key]
    ELSE nonpending_col[key]

\* A variant of get_class_info that accepts whatever record it finds.
get_class_info_AlwaysValid(requested_id, class_hash) ==
    IF requested_id = None THEN None
    ELSE LET info == class_db_get_encoded_kv(requested_id[1].pending, class_hash,
                                             pendingClassInfo, classInfo)
         IN  IF info = None THEN None ELSE Some(info[1].class_info)

\* get_class_info; requested_id is what id.resolve_db_block_id returned.
get_class_info(requested_id, class_hash) ==
    IF requested_id = None THEN None
    ELSE LET info == class_db_get_encoded_kv(requested_id[1].pending, class_hash,
                                             pendingClassInfo, classInfo)
         IN  IF info = None THEN None
             ELSE LET valid ==
                          IF requested_id[1].pending THEN TRUE
                          ELSE IF ~info[1].block_id.pending
                          THEN info[1].block_id.block_n <= requested_id[1].block_n
                          ELSE FALSE
                  IN  IF valid THEN Some(info[1].class_info) ELSE None

contains_class(class_hash) == classInfo[class_hash] # None

\* get_sierra_compiled; requested_id is what id.resolve_db_block_id returned.
get_sierra_compiled(requested_id, class_hash) ==
    IF requested_id = None THEN None
    ELSE class_db_get_encoded_kv(requested_id[1].pending, class_hash,
                                 pendingClassCompiled, classCompiled)

\* The write batch of store_classes for a column: the puts in order, a later put of a key
\* replacing an earlier one.
RECURSIVE write_batch(_, _)
write_batch(col, puts) ==
    IF puts = <<>> THEN col
    ELSE write_batch([col EXCEPT ![Head(puts).key] = Some(Head(puts).value)], Tail(puts))

\* A variant of store_classes that writes the info of a class the finalized tier has.
store_classes_Overwrites(block_id, converted_classes, col_info, col_compiled) ==
    LET InfoKeep(cl) == TRUE
        with_info == SelectSeq(converted_classes, InfoKeep)
        info_puts == [i \in 1..Len(with_info) |->
                         [key |-> with_info[i].class_hash,
                          value |-> [class_info |-> with_info[i].info, block_id |-> block_id]]]
        IsSierra(cl) == cl.info.sierra
        sierra == SelectSeq(converted_classes, IsSierra)
        compiled_puts == [i \in 1..Len(sierra) |->
                             [key |-> sierra[i].info.compiled_class_hash,
                              value |-> sierra[i].compiled]]
    IN  [info |-> write_batch(col_info, info_puts),
         compiled |-> write_batch(col_compiled, compiled_puts)]

\* store_classes for one chunk of classes: the two columns it leaves behind.
store_classes(block_id, converted_classes, col_info, col_compiled) ==
    LET InfoKeep(cl) == ~contains_class(cl.class_hash)
        with_info == SelectSeq(converted_classes, InfoKeep)
        info_puts == [i \in 1..Len(with_info) |->
                         [key |-> with_info[i].class_hash,
                          value |-> [class_info |-> with_info[i].info, block_id |-> block_id]]]
        IsSierra(cl) == cl.info.sierra
        sierra == SelectSeq(converted_classes, IsSierra)
        compiled_puts == [i \in 1..Len(sierra) |->
                             [key |-> sierra[i].info.compiled_class_hash,
                              value |-> sierra[i].compiled]]
    IN  [info |-> write_batch(col_info, info_puts),
         compiled |-> write_batch(col_compiled, compiled_puts)]

ClassHashes(converted_classes) ==
    {converted_classes[i].class_hash : i \in DOMAIN converted_classes}

\* class_db_store_block
class_db_store_block(block_number, converted_classes) ==
    /\ budget > 0
    /\ budget' = budget - 1
    /\ LET r == store_classes(BlockN(block_number), converted_classes, classInfo, classCompiled)
       IN  /\ classInfo' = r.info
           /\ classCompiled' = r.compiled
    /\ classOp' = [op |-> "store", block_id |-> BlockN(block_number),
                   class_hashes |-> ClassHashes(converted_classes)]
    /\ UNCHANGED <<mutex, caller, task, backendVars, orderIgnored, rootVars, hashVars,
                   classWriter, eventVars,
                   pendingClassInfo, pendingClassCompiled>>

\* class_db_store_pending
class_db_store_pending(converted_classes) ==
    /\ budget > 0
    /\ budget' = budget - 1
    /\ LET r == store_classes(Pending, converted_classes, pendingClassInfo, pendingClassCompiled)
       IN  /\ pendingClassInfo' = r.info
           /\ pendingClassCompiled' = r.compiled
    /\ classOp' = [op |-> "store", block_id |-> Pending,
                   class_hashes |-> ClassHashes(converted_classes)]
    /\ UNCHANGED <<mutex, caller, task, backendVars, orderIgnored, rootVars, hashVars,
                   classWriter, eventVars,
                   classInfo, classCompiled>>

\* class_db_clear_pending
class_db_clear_pending ==
    /\ budget > 0
    /\ budget' = budget - 1
    /\ pendingClassInfo' = delete_range_cf(pendingClassInfo, <<>>, LAST_KEY)
    /\ pendingClassCompiled' = delete_range_cf(pendingClassCompiled, <<>>, LAST_KEY)
    /\ classOp' = [op |-> "clear"]
    /\ UNCHANGED <<mutex, caller, task, backendVars, orderIgnored, rootVars, hashVars,
                   classWriter, eventVars,
                   classInfo, classCompiled>>

\* A reader calls get_class_info.
ReadClassInfo(requested_id, class_hash) ==
    /\ classOp' = [op |-> "get_class_info", id |-> requested_id, class_hash |-> class_hash,
                   result |-> get_class_info(requested_id, class_hash)]
    /\ UNCHANGED <<importVars, rootVars, hashVars, classColumns, classWriter, eventVars>>

\* A reader calls get_sierra_compiled.
ReadSierraCompiled(requested_id, class_hash) ==
    /\ classOp' = [op |-> "get_sierra_compiled", id |-> requested_id,
                   class_hash |-> class_hash,
                   result |-> get_sierra_compiled(requested_id, class_hash)]
    /\ UNCHANGED <<importVars, rootVars, hashVars, classColumns, classWriter, eventVars>>

InitClassDb ==
    /\ InitCalls
    /\ InitBackend
    /\ InitAside
    /\ budget = MaxStores

StoreBlock == \E n \in BlockNs, classes \in ClassLists : class_db_store_block(n, classes)
StorePendingClasses == \E classes \in ClassLists : class_db_store_pending(classes)
ClearPending == class_db_clear_pending
ReadInfo == \E id \in Option(DbBlockIds), h \in Felt : ReadClassInfo(id, h)
ReadCompiled == \E id \in Option(DbBlockIds), h \in Felt : ReadSierraCompiled(id, h)

NextClassDb ==
    \/ StoreBlock
    \/ StorePendingClasses
    \/ ClearPending
    \/ ReadInfo
    \/ ReadCompiled

SpecClassDb == InitClassDb /\ [][NextClassDb]_vars

\* The same calls as concurrent readers see them: store_classes writes the batch of
\* class infos and then the batch of compiled classes, class_db_clear_pending deletes
\* the range of one column and then that of the other, and a read may come in between.
Column(name) ==
    CASE name = "ClassInfo" -> classInfo
      [] name = "ClassCompiled" -> classCompiled
      [] name = "PendingClassInfo" -> pendingClassInfo
      [] name = "PendingClassCompiled" -> pendingClassCompiled

\* A variant of col_info that names the finalized column for every store.
col_info_AlwaysFinalized(block_id) == "ClassInfo"

\* The columns class_db_store_block and class_db_store_pending give to store_classes.
col_info(block_id) == IF block_id.pending THEN "PendingClassInfo" ELSE "ClassInfo"
col_compiled(block_id) == IF block_id.pending THEN "PendingClassCompiled" ELSE "ClassCompiled"

\* store_classes up to and including the write of the class-info batch.
store_classes_info_batch(block_id, converted_classes) ==
    /\ budget > 0
    /\ classWriter.pc = "idle"
    /\ budget' = budget - 1
    /\ LET r == store_classes(block_id, converted_classes, Column(col_info(block_id)),
                              Column(col_compiled(block_id)))
       IN  /\ classInfo' = IF col_info(block_id) = "ClassInfo" THEN r.info ELSE classInfo
           /\ pendingClassInfo' = IF col_info(block_id) = "PendingClassInfo"
                                  THEN r.info ELSE pendingClassInfo
    /\ classWriter' = [pc |-> "store", block_id |-> block_id,
                       converted_classes |-> converted_classes]
    /\ classOp' = [op |-> "store", block_id |-> block_id,
                   class_hashes |-> ClassHashes(converted_classes)]
    /\ UNCHANGED <<mutex, caller, task, backendVars, orderIgnored, rootVars, hashVars,
                   classCompiled, pendingClassCompiled, eventVars>>

\* The rest of store_classes: the write of the compiled-class batch.
store_classes_compiled_batch ==
    /\ classWriter.pc = "store"
    /\ LET block_id == classWriter.block_id
           r == store_classes(block_id, classWriter.converted_classes,
                              Column(col_info(block_id)), Column(col_compiled(block_id)))
       IN  /\ classCompiled' = IF col_compiled(block_id) = "ClassCompiled"
                               THEN r.compiled ELSE classCompiled
           /\ pendingClassCompiled' = IF col_compiled(block_id) = "PendingClassCompiled"
                                      THEN r.compiled ELSE pendingClassCompiled
    /\ classWriter' = [pc |-> "idle"]
    /\ UNCHANGED <<importVars, rootVars, hashVars, classInfo, pendingClassInfo, classOp,
                   eventVars>>

\* class_db_clear_pending up to and including the delete on Column::PendingClassInfo.
clear_pending_info ==
    /\ budget > 0
    /\ classWriter.pc = "idle"
    /\ budget' = budget - 1
    /\ pendingClassInfo' = delete_range_cf(pendingClassInfo, <<>>, LAST_KEY)
    /\ classWriter' = [pc |-> "clear"]
    /\ classOp' = [op |-> "clear"]
    /\ UNCHANGED <<mutex, caller, task, backendVars, orderIgnored, rootVars, hashVars,
                   classInfo, classCompiled, pendingClassCompiled, eventVars>>

\* The rest of class_db_clear_pending: the delete on Column::PendingClassCompiled.
clear_pending_compiled ==
    /\ classWriter.pc = "clear"
    /\ pendingClassCompiled' = delete_range_cf(pendingClassCompiled, <<>>, LAST_KEY)
    /\ classWriter' = [pc |-> "idle"]
    /\ UNCHANGED <<importVars, rootVars, hashVars, classInfo, classCompiled,
                   pendingClassInfo, classOp, eventVars>>

\* The second write of either call returns an error (`?`): the call ends there.
second_write_fails ==
    /\ classWriter.pc # "idle"
    /\ classWriter' = [pc |-> "idle"]
    /\ UNCHANGED <<importVars, rootVars, hashVars, classColumns, classOp, eventVars>>

InitClassSteps ==
    /\ InitCalls
    /\ InitBackend
    /\ InitAside
    /\ budget = MaxWrites

StoreInfoStep ==
    \E block_id \in DbBlockIds, classes \in ClassLists :
        store_classes_info_batch(block_id, classes)

NextClassSteps ==
    \/ StoreInfoStep
    \/ store_classes_compiled_batch
    \/ clear_pending_info
    \/ clear_pending_compiled
    \/ second_write_fails
    \/ ReadInfo
    \/ ReadCompiled

SpecClassSteps == InitClassSteps /\ [][NextClassSteps]_vars

\* ------------------------------------------------------------ eth/client.rs
\* The number of blocks get_last_event_block_number looks back (latest_block - 6000).
EventWindow == 6000

\* L1 block numbers: the first blocks and those around the window's length.
L1Blocks == {0, 1, EventWindow - 1, EventWindow, EventWindow + 1, 2 * EventWindow + 1}

\* A log of a mined block: its block number, whether the core contract emitted it, and
\* whether it decodes as the requested event T.
Logs == [block_number : L1Blocks, core : BOOLEAN, decodes : BOOLEAN]

\* The logs of a chain whose latest block is `latest_block`, in the order of the chain.
ChainLogs(latest_block) ==
    {logs \in SeqsUpTo(Logs, MaxLogs) :
        /\ \A i \in DOMAIN logs : logs[i].block_number <= latest_block
        /\ \A i, j \in DOMAIN logs : i < j => logs[i].block_number <= logs[j].block_number}

\* a - b on u64: with overflow checks (a debug build) an underflow panics, without
\* them (a release build) it wraps.
sub_u64(a, b, overflow_checks) ==
    IF a >= b THEN [panic |-> FALSE, value |-> a - b]
    ELSE IF overflow_checks THEN [panic |-> TRUE, value |-> 0]
    ELSE [panic |-> FALSE, value |-> (a + (MaxU64 + 1) - b) % (MaxU64 + 1)]

\* provider.get_logs(filter): the logs of the address in from_block..=to_block.
get_logs(logs, from_block, to_block) ==
    LET Matches(log) ==
            log.core /\ from_block <= log.block_number /\ log.block_number <= to_block
    IN  SelectSeq(logs, Matches)

EventOk(from_block, value) == [kind |-> "Ok", from_block |-> from_block, value |-> value]
EventErr(from_block, msg) == [kind |-> "Err", from_block |-> from_block, msg |-> msg]
EventPanic == [kind |-> "Panic"]

\* get_last_event_block_number::<T> on a chain with the given latest block and logs.
\* rpc_fails: the provider fails to give the latest block number; range_rejected: the
\* provider answers a filter whose from_block is above its to_block with an error
\* rather than with no logs.
get_last_event_block_number(latest_block, logs, overflow_checks, rpc_fails, range_rejected) ==
    IF rpc_fails THEN EventErr(0, "provider")
    ELSE LET from_block == sub_u64(latest_block, EventWindow, overflow_checks)
         IN  IF from_block.panic THEN EventPanic
             ELSE IF from_block.value > latest_block /\ range_rejected
             THEN EventErr(from_block.value, "invalid block range")
             ELSE LET Decodes(log) == log.decodes
                      filtered_logs ==
                          SelectSeq(get_logs(logs, from_block.value, latest_block), Decodes)
                  IN  IF filtered_logs # <<>>
                      THEN EventOk(from_block.value,
                                   filtered_logs[Len(filtered_logs)].block_number)
                      ELSE EventErr(from_block.value, "no event found")

\* get_last_event_block_number on its own, over the chains of the model.
InitEventChains ==
    /\ InitCalls
    /\ InitBackend
    /\ InitRoot
    /\ InitHash
    /\ InitClasses
    /\ budget = 0
    /\ \E latest_block \in L1Blocks :
           eventIn \in [latest_block : {latest_block}, logs : ChainLogs(latest_block)]
    /\ eventOut = None

GetLastEvent ==
    /\ eventOut = None
    /\ \E overflow_checks \in BOOLEAN, rpc_fails \in BOOLEAN, range_rejected \in BOOLEAN :
           eventOut' = Some(get_last_event_block_number(eventIn.latest_block, eventIn.logs,
                                                        overflow_checks, rpc_fails,
                                                        range_rejected))
    /\ UNCHANGED <<importVars, rootVars, hashVars, classVars, eventIn>>

SpecEvents == InitEventChains /\ [][GetLastEvent]_vars

\* ================================================================ claims
\* What check_parent_hash_and_num expects after seeing `seen`, the latest block info.
ExpectedNumber(seen) == IF seen = None THEN 0 ELSE seen[1].block_number + 1
ExpectedParent(seen) == IF seen = None THEN FeltZERO ELSE seen[1].block_hash

\* The observed continuity check of task c let the import go on.
Passed(c) ==
    /\ task[c].checked
    /\ task[c].pc \in {"tries", "store", "finished"}
    /\ task[c].pc = "finished" => task[c].result = Ok

FailedWith(c, result) == task[c].pc = "finished" /\ task[c].result = result

Stored(n) == blocks[n] # None

Contiguous == \A n \in BlockNs : Stored(n) => \A m \in 0..(n - 1) : Stored(m)

\* C1: at most one inner import (verify_apply_inner or verify_apply_pending_inner) is
\* executing on the pool at any time.
C1_MutualExclusion == Cardinality({c \in Calls : Executing(c)}) <= 1

\* C2: while an inner import that has begun on the pool has not returned, the call
\* that spawned it holds the exclusive lock, also when its future was dropped.
C2_LockHeldUntilReturn == \A c \in Calls : Executing(c) => mutex = Some(c)

\* C3: as long as every finalized import that stored a block had ignore_block_order
\* disabled, the stored header of block N+1 has the stored hash of block N as its
\* parent_block_hash.
C3_ChainContinuity ==
    ~orderIgnored =>
        \A n \in BlockNs :
            (n + 1 \in BlockNs /\ Stored(n) /\ Stored(n + 1)) =>
                blocks[n + 1][1].header.parent_block_hash = blocks[n][1].block_hash

\* C4 as stated: in every reachable state the numbers of the stored finalized blocks
\* are contiguous from 0.
C4_ContiguousAlways == Contiguous

\* C4 amended: the numbers of the stored finalized blocks are contiguous from 0 as long
\* as every finalized import that stored a block had ignore_block_order disabled.
C4_ContiguousInOrder == ~orderIgnored => Contiguous

C4_Witness == ~orderIgnored /\ \A n \in BlockNs : n <= 1 => Stored(n)

\* C5 as stated: a continuity check that finds no finalized block expects number 0 and
\* parent hash zero, the block then imported has number 0 and parent hash zero, and with
\* ignore_block_order disabled a claimed number other than 0 fails with
\* LatestBlockN {expected: 0, got}.
C5_GenesisAlwaysZero ==
    \A c \in Calls :
        (task[c].checked /\ task[c].latest_seen = None) =>
            /\ Passed(c) => task[c].parent_block_hash = FeltZERO /\ task[c].block_number = 0
            /\ ( /\ task[c].kind = "final"
                 /\ ~task[c].ignore_block_order
                 /\ task[c].claimed_n # None
                 /\ task[c].claimed_n[1] # 0 )
               => FailedWith(c, Err("LatestBlockN", 0, task[c].claimed_n[1]))

\* C5 amended: the same, but the imported block has number 0 only if
\* ignore_block_order is disabled or no block number is claimed; with the flag set the
\* claimed number is the block's.
C5_Genesis ==
    \A c \in Calls :
        (task[c].checked /\ task[c].latest_seen = None) =>
            /\ Passed(c) =>
                  /\ task[c].parent_block_hash = FeltZERO
                  /\ (~task[c].ignore_block_order \/ task[c].claimed_n = None)
                        => task[c].block_number = 0
                  /\ (task[c].ignore_block_order /\ task[c].claimed_n # None)
                        => task[c].block_number = task[c].claimed_n[1]
            /\ ( /\ task[c].kind = "final"
                 /\ ~task[c].ignore_block_order
                 /\ task[c].claimed_n # None
                 /\ task[c].claimed_n[1] # 0 )
               => FailedWith(c, Err("LatestBlockN", 0, task[c].claimed_n[1]))

C5_Witness ==
    \E c \in Calls :
        /\ task[c].checked /\ task[c].latest_seen = None
        /\ task[c].kind = "final"
        /\ ~task[c].ignore_block_order
        /\ task[c].claimed_n = Some(0)
        /\ FailedWith(c, Ok)
        /\ Stored(0)

\* C6: a finalized import that returns an error has changed nothing: neither a trie
\* nor the stored blocks.
C6_AtomicAbort ==
    \A c \in Calls :
        (task[c].kind = "final" /\ task[c].pc = "finished" /\ task[c].result # Ok)
            => ~task[c].wrote

\* The parent hash of the header that the store step of task c leaves in the backend.
StoredParentNext(c) ==
    IF task[c].kind = "final"
    THEN blocks'[task[c].block_number][1].header.parent_block_hash
    ELSE pending'[1].parent_block_hash

Overridden(c) ==
    /\ task[c].checked
    /\ task[c].ignore_block_order
    /\ task[c].claimed_parent # None
    /\ task[c].claimed_parent[1] # ExpectedParent(task[c].latest_seen)

\* C7: when an import, finalized or pending, with ignore_block_order set and a claimed
\* parent hash other than the expected one stores its block, the stored header carries
\* the expected parent hash (the hash of the latest block its check saw, or zero), not
\* the claimed one.
C7_StoredParentIsExpected ==
    [][\A c \in Calls :
          ( /\ Overridden(c)
            /\ task[c].pc = "store"
            /\ task'[c].pc = "finished"
            /\ task'[c].result = Ok )
          => /\ StoredParentNext(c) = ExpectedParent(task[c].latest_seen)
             /\ StoredParentNext(c) # task[c].claimed_parent[1]]_vars

C7_Witness ==
    \E c \in Calls, d \in Calls :
        /\ Overridden(c) /\ task[c].kind = "final" /\ FailedWith(c, Ok)
        /\ Overridden(d) /\ task[d].kind = "pending" /\ FailedWith(d, Ok)

\* C8: a finalized import whose claimed block number differs from the expected one
\* fails with LatestBlockN {expected, got} when ignore_block_order is disabled and goes
\* on with the claimed number as its block number when the flag is set; without a
\* claimed number the expected number is the block number.
C8_BlockNumberCheck ==
    \A c \in Calls :
        (task[c].checked /\ task[c].kind = "final") =>
            LET expected == ExpectedNumber(task[c].latest_seen)
            IN  /\ (task[c].claimed_n # None /\ task[c].claimed_n[1] # expected) =>
                      IF task[c].ignore_block_order
                      THEN Passed(c) /\ task[c].block_number = task[c].claimed_n[1]
                      ELSE FailedWith(c, Err("LatestBlockN", expected, task[c].claimed_n[1]))
                /\ (task[c].claimed_n = None /\ Passed(c)) => task[c].block_number = expected

C8_Witness ==
    \E c \in Calls :
        /\ task[c].checked /\ task[c].kind = "final"
        /\ task[c].ignore_block_order
        /\ task[c].claimed_n # None
        /\ task[c].claimed_n[1] # ExpectedNumber(task[c].latest_seen)
        /\ FailedWith(c, Ok)
        /\ Stored(task[c].claimed_n[1])

ParentMismatch(c) ==
    /\ task[c].checked
    /\ task[c].claimed_parent # None
    /\ task[c].claimed_parent[1] # ExpectedParent(task[c].latest_seen)

NumberMismatch(c) ==
    /\ task[c].checked
    /\ task[c].claimed_n # None
    /\ task[c].claimed_n[1] # ExpectedNumber(task[c].latest_seen)

\* C9 as stated: with ignore_block_order disabled, an import (finalized or pending)
\* whose claimed parent hash differs from the hash of the latest block fails with
\* ParentHash {expected, got} and stores nothing; without a claimed parent hash no
\* import fails with ParentHash.
C9_ParentHashAlwaysReported ==
    \A c \in Calls :
        /\ (ParentMismatch(c) /\ ~task[c].ignore_block_order) =>
              /\ FailedWith(c, Err("ParentHash", ExpectedParent(task[c].latest_seen),
                                   task[c].claimed_parent[1]))
              /\ ~task[c].wrote
        /\ (task[c].checked /\ task[c].claimed_parent = None) =>
              task[c].result.kind # "ParentHash"

\* C9 amended: the same, except that a finalized import whose claimed block number
\* also differs from the expected one fails with LatestBlockN {expected, got}: the
\* number is checked first.
C9_ParentHashCheck ==
    \A c \in Calls :
        /\ (ParentMismatch(c) /\ ~task[c].ignore_block_order) =>
              /\ IF NumberMismatch(c)
                 THEN FailedWith(c, Err("LatestBlockN", ExpectedNumber(task[c].latest_seen),
                                        task[c].claimed_n[1]))
                 ELSE FailedWith(c, Err("ParentHash", ExpectedParent(task[c].latest_seen),
                                        task[c].claimed_parent[1]))
              /\ ~task[c].wrote
        /\ (task[c].checked /\ task[c].claimed_parent = None) =>
              task[c].result.kind # "ParentHash"

C9_Witness ==
    \E c \in Calls :
        /\ ParentMismatch(c) /\ ~task[c].ignore_block_order
        /\ task[c].kind = "pending"
        /\ task[c].latest_seen # None
        /\ FailedWith(c, Err("ParentHash", task[c].latest_seen[1].block_hash,
                             task[c].claimed_parent[1]))
        /\ pending = None

\* The ASCII codes of "STARKNET_STATE_V0".
StarknetStateV0 == <<83, 84, 65, 82, 75, 78, 69, 84, 95, 83, 84, 65, 84, 69, 95, 86, 48>>

\* C10: calculate_state_root(r, 0) = r and, for c # 0, calculate_state_root(r, c) is
\* Poseidon over <<PREFIX, r, c>> with PREFIX the felt of the bytes "STARKNET_STATE_V0",
\* which are the bytes of the constant's hex literal.
C10_StateRootLaw ==
    rootOut # None =>
        LET r == rootIn[1]
            c == rootIn[2]
        IN  /\ STARKNET_STATE_PREFIX_BYTES = StarknetStateV0
            /\ c = 0 => rootOut[1] = r
            /\ c # 0 => rootOut[1] = Poseidon_hash_array(<<FeltFromBytes(0, StarknetStateV0), r, c>>)

C10_Witness == rootOut # None /\ rootIn[1] # 0 /\ rootIn[2] # 0 /\ rootOut[1] # rootIn[1]

\* The root update_tries computes for `diff` on the tries as they are.
ComputedRoot(diff) ==
    calculate_state_root(TrieRoot(contractTrie \cup diff.contracts),
                         TrieRoot(classTrie \cup diff.classes))

\* C11: a finalized import with trust_global_tries disabled whose asserted global root
\* differs from the root computed by the trie updates ends with
\* GlobalStateRoot {expected, got}, whatever ignore_block_order is, and stores no block.
C11_RootCheckNotOverridable ==
    [][\A c \in Calls :
          (task[c].pc = "tries" /\ task'[c] # task[c]) =>
              \A root \in Felt, diff \in TrieDiffs :
                  ( /\ root # ComputedRoot(diff)
                    /\ TriesWith(c, TRUE, FALSE, Some(root), diff, NoTrieFailure) )
                  => /\ task'[c].pc = "finished"
                     /\ task'[c].result = Err("GlobalStateRoot", root, ComputedRoot(diff))
                     /\ blocks' = blocks
                     /\ latest' = latest]_vars

C11_Witness ==
    \E c \in Calls :
        /\ task[c].kind = "final"
        /\ task[c].ignore_block_order
        /\ task[c].pc = "finished"
        /\ task[c].result.kind = "GlobalStateRoot"
        /\ latest = None

\* C12: with trust_global_tries set, update_tries leaves the contract trie and the
\* class trie as they are; an asserted global root becomes the import's global state
\* root and is the global_state_root of the header that is stored; without an asserted
\* root the import ends with the internal error and stores nothing.
C12_TrustedFastPath ==
    [][\A c \in Calls :
          /\ (task[c].pc = "tries" /\ task'[c] # task[c]) =>
              \A root \in Option(Felt), diff \in TrieDiffs, db_fails \in TrieFailures :
                TriesWith(c, TRUE, TRUE, root, diff, db_fails)
                => /\ contractTrie' = contractTrie
                   /\ classTrie' = classTrie
                   /\ root # None =>
                         /\ task'[c].pc = "store"
                         /\ task'[c].global_state_root = root[1]
                   /\ root = None =>
                         /\ task'[c].pc = "finished"
                         /\ task'[c].result = Internal
                         /\ ~task'[c].wrote
                         /\ blocks' = blocks
                         /\ latest' = latest
          /\ ( /\ task[c].kind = "final"
               /\ task[c].pc = "store"
               /\ task'[c].pc = "finished"
               /\ task'[c].result = Ok )
             => blocks'[task[c].block_number][1].header.global_state_root
                    = task[c].global_state_root]_vars

\* No trie was touched, yet the import goes on with a root that is not the root of the
\* empty tries.
C12_Witness ==
    \E c \in Calls :
        /\ budget = MaxSingle - 1
        /\ task[c].kind = "final"
        /\ task[c].pc = "store"
        /\ contractTrie = {}
        /\ classTrie = {}
        /\ task[c].global_state_root # calculate_state_root(FeltZERO, FeltZERO)

\* C13: with ignore_block_order disabled and an asserted block hash other than the
\* computed one, block_hash returns Ok with the asserted hash as the block's hash if
\* the chain is Mainnet and the block number is in 1466..=2242, and
\* BlockHash {expected, got} for any other number or chain.
C13_MainnetException ==
    hashOut # None =>
        LET header == [parent_block_hash |-> hashIn.parent_block_hash,
                       block_number |-> hashIn.block_number,
                       global_state_root |-> hashIn.global_state_root]
            computed == compute_hash(header, hashIn.chain_id)
            asserted == hashIn.unverified_block_hash
        IN  (~hashIn.ignore_block_order /\ asserted # None /\ asserted[1] # computed) =>
                IF /\ hashIn.chain_id = "Mainnet"
                   /\ 1466 <= hashIn.block_number
                   /\ hashIn.block_number <= 2242
                THEN /\ hashOut[1].result = Ok
                     /\ hashOut[1].block_hash = asserted[1]
                     /\ hashOut[1].header = header
                ELSE hashOut[1].result = Err("BlockHash", asserted[1], computed)

C13_Witness ==
    /\ hashOut # None
    /\ hashIn.chain_id = "Mainnet"
    /\ hashIn.block_number = 1466
    /\ ~hashIn.ignore_block_order
    /\ hashIn.unverified_block_hash # None
    /\ hashOut[1].result = Ok
    /\ hashOut[1].block_hash = hashIn.unverified_block_hash[1]
    /\ hashOut[1].block_hash # compute_hash(hashOut[1].header, hashIn.chain_id)

\* C14: a finalized store of classes changes no class-info record that the finalized
\* tier already holds: after a second store, at another block, of a class with the same
\* hash, the record still has the class info and the block number of the first.
C14_FirstWriterWins ==
    [][\A h \in Felt : classInfo[h] # None => classInfo'[h] = classInfo[h]]_vars

\* The last call stored a class with hash h at block 1; the record of h is of block 0.
C14_Witness ==
    \E h \in Felt :
        /\ classOp.op = "store"
        /\ classOp.block_id = BlockN(1)
        /\ h \in classOp.class_hashes
        /\ classInfo[h] # None
        /\ classInfo[h][1].block_id = BlockN(0)

\* C15: get_class_info anchored at finalized block N returns the class info of a record
\* written at block M if M <= N and absent if M > N or if there is no record.
C15_FinalizedVisibility ==
    \A h \in Felt, n \in BlockNs :
        get_class_info(Some(BlockN(n)), h) =
            IF classInfo[h] # None /\ classInfo[h][1].block_id.block_n <= n
            THEN Some(classInfo[h][1].class_info)
            ELSE None

\* A reader asked at block 0 for a class that was written at block 1 and got nothing.
C15_Witness ==
    /\ classOp.op = "get_class_info"
    /\ classOp.id = Some(BlockN(0))
    /\ classInfo[classOp.class_hash] # None
    /\ classInfo[classOp.class_hash][1].block_id = BlockN(1)
    /\ classOp.result = None

\* C16: get_sierra_compiled anchored at finalized block N returns absent for the
\* compiled program of a class whose record was written at a block M > N.
C16_CompiledVisibility ==
    \A h \in Felt, n \in BlockNs :
        ( /\ classInfo[h] # None
          /\ classInfo[h][1].class_info.sierra
          /\ classInfo[h][1].block_id.block_n > n )
        => get_sierra_compiled(Some(BlockN(n)), classInfo[h][1].class_info.compiled_class_hash)
               = None

\* C17: a record of the pending tier is what a pending-aware read returns; a read
\* anchored at a finalized block returns nothing of the pending tier (absent, or what
\* the finalized tier holds); a pending-aware read that finds nothing in the pending tier
\* returns the record of the finalized tier, whatever its block number.
C17_PendingVisibility ==
    \A h \in Felt :
        /\ pendingClassInfo[h] # None =>
              get_class_info(Some(Pending), h) = Some(pendingClassInfo[h][1].class_info)
        /\ pendingClassCompiled[h] # None =>
              get_sierra_compiled(Some(Pending), h) = pendingClassCompiled[h]
        /\ \A n \in BlockNs :
              /\ classInfo[h] = None => get_class_info(Some(BlockN(n)), h) = None
              /\ classInfo[h] # None =>
                    get_class_info(Some(BlockN(n)), h) \in {None, Some(classInfo[h][1].class_info)}
              /\ get_sierra_compiled(Some(BlockN(n)), h) = classCompiled[h]
        /\ pendingClassInfo[h] = None =>
              get_class_info(Some(Pending), h) =
                  IF classInfo[h] = None THEN None ELSE Some(classInfo[h][1].class_info)
        /\ pendingClassCompiled[h] = None =>
              get_sierra_compiled(Some(Pending), h) = classCompiled[h]

\* A reader asked at a finalized block for a class that only the pending tier holds and
\* got nothing.
C17_Witness ==
    /\ classOp.op = "get_class_info"
    /\ classOp.id # None
    /\ ~classOp.id[1].pending
    /\ pendingClassInfo[classOp.class_hash] # None
    /\ classInfo[classOp.class_hash] = None
    /\ classOp.result = None

PendingTierEmpty ==
    \A h \in Felt : pendingClassInfo[h] = None /\ pendingClassCompiled[h] = None

\* C18: class_db_clear_pending leaves no record in PendingClassInfo and
\* PendingClassCompiled, so that pending-aware reads return what the finalized tier
\* holds, and leaves ClassInfo and ClassCompiled as they are.
C18_ClearPending ==
    [][classOp'.op = "clear" =>
          /\ PendingTierEmpty'
          /\ \A h \in Felt :
                /\ get_class_info(Some(Pending), h)' =
                      IF classInfo[h] = None THEN None ELSE Some(classInfo[h][1].class_info)
                /\ get_sierra_compiled(Some(Pending), h)' = classCompiled[h]
          /\ classInfo' = classInfo
          /\ classCompiled' = classCompiled]_vars

\* The pending tier was cleared while the finalized tier held a class: it is still there.
C18_Witness ==
    /\ classOp.op = "clear"
    /\ budget = 0
    /\ PendingTierEmpty
    /\ \E h \in Felt : classInfo[h] # None /\ classInfo[h][1].class_info.sierra
    /\ \E h \in Felt : classCompiled[h] # None

\* block_hash_and_number: the answer of the RPC method on the backend as it is.
block_hash_and_number ==
    IF LatestBlockInfo = None THEN [result |-> Err("BlockNotFound", 0, 0)]
    ELSE IF LatestBlockInfo[1].pending THEN [result |-> Internal]
    ELSE [result |-> Ok, block_hash |-> LatestBlockInfo[1].block_hash,
          block_number |-> LatestBlockInfo[1].block_number]

\* C19: when a finalized import stores its block, of number n and hash h, the backend
\* holds the import's header and hash under n, block_hash_and_number returns (h, n),
\* and the import's result carries that header and that hash.
C19_LatestAdvances ==
    [][\A c \in Calls :
          ( /\ task[c].kind = "final"
            /\ task[c].pc = "store"
            /\ task'[c].pc = "finished"
            /\ task'[c].result = Ok )
          => LET n == task'[c].block_number
                 header == [parent_block_hash |-> task'[c].parent_block_hash,
                            block_number |-> n,
                            global_state_root |-> task'[c].global_state_root]
             IN  /\ blocks'[n] = Some([header |-> header, block_hash |-> task'[c].block_hash])
                 /\ block_hash_and_number' =
                        [result |-> Ok, block_hash |-> task'[c].block_hash, block_number |-> n]]_vars

\* A second finalized import has stored block 1, which is the latest.
C19_Witness ==
    \E c \in Calls :
        /\ task[c].kind = "final"
        /\ FailedWith(c, Ok)
        /\ task[c].block_number = 1
        /\ Stored(0)
        /\ block_hash_and_number =
               [result |-> Ok, block_hash |-> task[c].block_hash, block_number |-> 1]

\* C20: an import, finalized or pending, whose get_block_info finds a pending block as
\* the latest ends with the internal error whatever its claims and ignore_block_order
\* are, before update_tries is reached, and writes nothing.
C20_LatestIsPendingFatal ==
    [][\A c \in Calls :
          (task[c].pc = "check" /\ task'[c] # task[c]) =>
              \A claimed_parent \in Option(Felt), claimed_n \in Option(BlockNs), ign \in BOOLEAN :
                  CheckWith(c, TRUE, claimed_parent, claimed_n, ign, FALSE, TRUE)
                  => /\ task'[c].pc = "finished"
                     /\ task'[c].result = Internal
                     /\ ~task'[c].wrote
                     /\ backendVars' = backendVars]_vars

\* A pending import with ignore_block_order set has ended with the internal error, which
\* only the check of the latest block gives a pending import.
C20_Witness ==
    \E c \in Calls :
        /\ task[c].kind = "pending"
        /\ task[c].ignore_block_order
        /\ FailedWith(c, Internal)
        /\ pending = None

\* C21: under fair scheduling, with inner imports that terminate, every call of
\* verify_apply or verify_apply_pending ends: a future that is awaited resolves with the
\* Result of its import (the only other way a call ends is that its caller drops it);
\* a lock that is held is released; and when a call returns the lock is free, whether
\* the import succeeded or failed, so that a call waiting for the lock gets it.
C21_LockReleaseAndProgress ==
    /\ \A c \in Calls : []<>(caller[c] \in {"idle", "dropped"})
    /\ []<>(mutex = None)
    /\ [][\A c \in Calls :
              caller[c] = "awaiting" /\ caller'[c] = "idle"
                  => task[c].pc = "finished" /\ mutex' = None]_vars

\* A first import wrote to a trie and failed, its call is over, and the call that was
\* made after it holds the lock.
C21_Witness ==
    /\ caller[1] = "idle"
    /\ task[1].pc = "none"
    /\ mutex = Some(2)
    /\ caller[2] = "awaiting"
    /\ budget = MaxPair - 2
    /\ classTrie # {}
    /\ \A n \in BlockNs : blocks[n] = None
    /\ pending = None

\* block_hash applied to the header of hashIn under the chain id of hashIn, with another
\* asserted hash and another flag.
HashWith(unverified_block_hash, ignore_block_order) ==
    block_hash(unverified_block_hash, hashIn.chain_id, ignore_block_order,
               hashIn.block_number, hashIn.parent_block_hash, hashIn.global_state_root)

\* C22 as stated: two applications of block_hash that assemble the same header under
\* the same chain id and both succeed return the same block hash, whatever the asserted
\* hashes and the flags are.
C22_HashPurity ==
    (hashOut # None /\ hashOut[1].result = Ok) =>
        \A asserted \in Option(Felt), ign \in BOOLEAN :
            LET other == HashWith(asserted, ign)
            IN  other.result = Ok =>
                    /\ other.header = hashOut[1].header
                    /\ other.block_hash = hashOut[1].block_hash

\* C22, amended: the same for two applications neither of which is a Mainnet block in
\* 1466..=2242 with an asserted hash, and their common hash is compute_hash of the header
\* under the chain id; for a Mainnet block in 1466..=2242 with an asserted hash the
\* result is the asserted hash.
C22_HashPurityOutsideException ==
    (hashOut # None /\ hashOut[1].result = Ok) =>
        LET special == is_special_trusted_case(hashIn.chain_id, hashIn.block_number)
        IN  /\ (special /\ hashIn.unverified_block_hash # None)
                   => hashOut[1].block_hash = hashIn.unverified_block_hash[1]
            /\ ~(special /\ hashIn.unverified_block_hash # None) =>
                   /\ hashOut[1].block_hash = compute_hash(hashOut[1].header, hashIn.chain_id)
                   /\ \A asserted \in Option(Felt), ign \in BOOLEAN :
                          LET other == HashWith(asserted, ign)
                          IN  (other.result = Ok /\ ~(special /\ asserted # None)) =>
                                  /\ other.header = hashOut[1].header
                                  /\ other.block_hash = hashOut[1].block_hash

\* block_hash succeeded on a block outside the exception whose asserted hash is not the
\* computed one, and the same header with no asserted hash gives the same hash.
C22_Witness ==
    /\ hashOut # None
    /\ hashOut[1].result = Ok
    /\ hashIn.chain_id = "Mainnet"
    /\ hashIn.block_number = 2243
    /\ hashIn.ignore_block_order
    /\ hashIn.unverified_block_hash # None
    /\ hashIn.unverified_block_hash[1] # hashOut[1].block_hash
    /\ HashWith(None, FALSE).block_hash = hashOut[1].block_hash

\* The finalized store that is in flight in this state or begins with this step.
FinalStoreInFlight(w) == w.pc = "store" /\ ~w.block_id.pending

\* Every finalized class-info record was written at a block below n.
LatestBelow(n) ==
    \A h \in Felt : classInfo[h] # None => classInfo[h][1].block_id.block_n < n

\* C23, class info: no write of a finalized store of block n changes what
\* get_class_info returns for a finalized block below n.
C23_ClassInfoDuringCommit ==
    [][\A n \in BlockNs, m \in BlockNs, h \in Felt :
          LET w == IF classWriter.pc = "store" THEN classWriter ELSE classWriter'
          IN  (FinalStoreInFlight(w) /\ w.block_id.block_n = n /\ m < n) =>
                  get_class_info(Some(BlockN(m)), h)' = get_class_info(Some(BlockN(m)), h)]_vars

\* C23: while a finalized store of block n is in flight, n above every block stored so
\* far, each of its writes leaves what get_class_info and get_sierra_compiled return
\* for a finalized block below n as it was.
C23_ReadersDuringCommit ==
    [][\A n \in BlockNs, m \in BlockNs, h \in Felt :
          LET w == IF classWriter.pc = "store" THEN classWriter ELSE classWriter'
          IN  (FinalStoreInFlight(w) /\ w.block_id.block_n = n /\ m < n /\ LatestBelow(n)) =>
                  /\ get_class_info(Some(BlockN(m)), h)' = get_class_info(Some(BlockN(m)), h)
                  /\ get_sierra_compiled(Some(BlockN(m)), h)'
                         = get_sierra_compiled(Some(BlockN(m)), h)]_vars

\* C25: class_db_clear_pending removes the pending tier in one step: a step that deletes
\* a record of one pending column leaves both pending columns empty.
C25_AtomicClear ==
    [][(\E h \in Felt :
           \/ pendingClassInfo[h] # None /\ pendingClassInfo'[h] = None
           \/ pendingClassCompiled[h] # None /\ pendingClassCompiled'[h] = None)
          => PendingTierEmpty']_vars

\* Every record of the pending class-info column is tagged Pending, every record of the
\* finalized one is tagged with a block number.
TierTags ==
    \A h \in Felt :
        /\ pendingClassInfo[h] # None => pendingClassInfo[h][1].block_id = Pending
        /\ classInfo[h] # None => classInfo[h][1].block_id \in {BlockN(n) : n \in BlockNs}

\* C26: after any sequence of finalized stores, pending stores and clears, their writes
\* taken one by one, the records of each tier carry the tag of their tier; no write of
\* a pending store changes a finalized column and no write of a finalized store changes
\* a pending column.
C26_TierTagConsistency ==
    /\ []TierTags
    /\ [][LET w == IF classWriter.pc = "store" THEN classWriter ELSE classWriter'
          IN  w.pc = "store" =>
                  IF w.block_id.pending
                  THEN UNCHANGED <<classInfo, classCompiled>>
                  ELSE UNCHANGED <<pendingClassInfo, pendingClassCompiled>>]_vars

\* A pending store wrote a class and its compiled class, and a finalized store that
\* came after it has written the same class: both tiers hold a record of it.
C26_Witness ==
    /\ \E h \in Felt : classInfo[h] # None /\ pendingClassInfo[h] # None
    /\ \E k \in Felt : pendingClassCompiled[k] # None
    /\ classOp.op = "store"
    /\ classOp.block_id # Pending
    /\ classWriter.pc = "idle"

\* C24: no step of a pending import changes the contract trie, the class trie, the
\* stored finalized blocks or the latest block; a pending import goes from the
\* continuity check straight to store_block, and it ends with Ok, ParentHash, Internal
\* or InternalDb, never with LatestBlockN, GlobalStateRoot or BlockHash.
C24_PendingImportFrame ==
    [][\A c \in Calls :
          (task[c].kind = "pending" /\ task[c].pc \in {"check", "store"} /\ task'[c] # task[c])
              => /\ UNCHANGED <<blocks, latest, contractTrie, classTrie>>
                 /\ task'[c].pc \in {"store", "finished"}
                 /\ task'[c].pc = "finished" =>
                        task'[c].result.kind \in {"Ok", "ParentHash", "Internal", "InternalDb"}
                 /\ (task'[c].pc = "finished" /\ task'[c].result = Ok) =>
                        pending' = Some([parent_block_hash |-> task[c].parent_block_hash])]_vars

\* A pending import has stored its block on top of a finalized block whose import
\* updated a trie; the latest block is still that finalized block.
C24_Witness ==
    /\ pending # None
    /\ latest = Some(0)
    /\ blocks[0] # None
    /\ pending[1].parent_block_hash = blocks[0][1].block_hash
    /\ contractTrie # {}
    /\ \E c \in Calls :
           task[c].kind = "pending" /\ task[c].pc = "finished" /\ task[c].result = Ok

\* C27: for a block outside the Mainnet range 1466..=2242 whose asserted hash is not
\* the computed one, a finalized import with ignore_block_order set ends with Ok, and
\* the block is stored and returned under the computed hash; with the flag disabled it
\* ends with BlockHash {expected: asserted, got: computed} and no block is stored.
C27_OverriddenHashMismatch ==
    [][\A c \in Calls, asserted \in Felt, chain_id \in ChainIds :
          LET t == task[c]
              header == [parent_block_hash |-> t.parent_block_hash,
                         block_number |-> t.block_number,
                         global_state_root |-> t.global_state_root]
              computed == compute_hash(header, chain_id)
          IN  (/\ t.pc = "store" /\ t.kind = "final" /\ task'[c] # t
               /\ asserted # computed
               /\ ~(chain_id = "Mainnet" /\ 1466 <= t.block_number /\ t.block_number <= 2242)
               /\ StoreFinalWith(c, TRUE, Some(asserted), chain_id, FALSE))
                  => IF t.ignore_block_order
                     THEN /\ task'[c].pc = "finished"
                          /\ task'[c].result = Ok
                          /\ task'[c].block_hash = computed
                          /\ blocks'[t.block_number]
                                 = Some([header |-> header, block_hash |-> computed])
                          /\ latest' = Some(t.block_number)
                     ELSE /\ task'[c].pc = "finished"
                          /\ task'[c].result = Err("BlockHash", asserted, computed)
                          /\ UNCHANGED <<blocks, latest>>]_vars

\* An import with ignore_block_order set has stored its block under a hash that is not
\* the one the block asserted.
C27_Witness ==
    \E c \in Calls :
        /\ task[c].pc = "finished"
        /\ task[c].kind = "final"
        /\ task[c].result = Ok
        /\ task[c].ignore_block_order
        /\ task[c].claimed_hash # None
        /\ task[c].claimed_hash[1] # task[c].block_hash
        /\ blocks[task[c].block_number] # None
        /\ blocks[task[c].block_number][1].block_hash = task[c].block_hash
        /\ task[c].block_hash = compute_hash(blocks[task[c].block_number][1].header,
                                             task[c].chain_id)

\* C28: when the provider answers, get_last_event_block_number does not panic, the
\* lower bound of the window it searches is latest - 6000 computed without underflow
\* (the chain's first block when latest < 6000), and it returns the block number of
\* the last log of the core contract in [latest - 6000, latest] that decodes as the
\* event, or the error "no event found" if there is none.
C28_EventWindow ==
    (eventOut # None /\ eventOut[1] # EventErr(0, "provider")) =>
        LET latest_block == eventIn.latest_block
            lower == latest_block - EventWindow
            InWindow(log) ==
                /\ log.core /\ log.decodes
                /\ lower <= log.block_number /\ log.block_number <= latest_block
            found == SelectSeq(eventIn.logs, InWindow)
        IN  /\ eventOut[1].kind # "Panic"
            /\ eventOut[1].from_block = IF lower >= 0 THEN lower ELSE 0
            /\ eventOut[1] = IF found # <<>>
                             THEN EventOk(eventOut[1].from_block, found[Len(found)].block_number)
                             ELSE EventErr(eventOut[1].from_block, "no event found")

\* The same for the chains whose latest block is at least 6000.
C28_EventWindowLongChain ==
    eventIn.latest_block >= EventWindow => C28_EventWindow

====
